---- MODULE Spec2Model ----
(***************************************************************************)
(* Branch-aware Alembic migration planner of the `ms` tool.                *)
(*                                                                         *)
(*   src/ms/alembic_ops.py  build_revision_chain, find_common_revision,    *)
(*                          get_migration_plan, execute_migration          *)
(*   src/ms/cli.py          handle_alembic_pre_checkout,                   *)
(*                          handle_alembic_post_checkout, gco              *)
(*                                                                         *)
(* Three specifications share the module:                                  *)
(*   SpecChain  build_revision_chain, one loop iteration per step          *)
(*   SpecPlan   get_migration_plan on two branches' revision lists         *)
(*   Spec       the gco command (pre-checkout, checkout, post-checkout)    *)
(***************************************************************************)
EXTENDS Integers, Sequences, FiniteSets, TLC

\* ------------------------------------------------------------------ bounds
\* Longest list of revision records handed to build_revision_chain (SpecChain).
MaxRevisions == 3

\* Longest list of revision records of one branch handed to get_migration_plan.
MaxBranchRevisions == 2

\* ------------------------------------------------------------------ values
\* Python's None.
Null == "null"

\* Revision identifiers that migration scripts may carry.
Ids == {"a", "b", "c"}

\* Python truthiness of an Optional[str]: None and "" are falsy.
Truthy(x) == x /= Null /\ x /= ""

\* One parsed revision record: {"id": ..., "down_revision": ...}.
RevisionRecords == [id : Ids, down_revision : Ids \cup {Null}]

\* All lists of at most n revision records.
RevisionLists(n) == UNION {[1..k -> RevisionRecords] : k \in 0..n}

\* No two records of the list carry the same id.
UniqueIds(revs) == \A i, j \in 1..Len(revs) : revs[i].id = revs[j].id => i = j

\* The record lists of one branch: at most n scripts, each with its own id
\* and none naming itself as its down_revision (lists with repeated ids and
\* self-referencing scripts are inputs of SpecChain).
BranchLists(n) ==
    {l \in RevisionLists(n) :
        UniqueIds(l) /\ \A i \in 1..Len(l) : l[i].down_revision /= l[i].id}

\* A revision the database may be at whose script is on neither branch: "x"
\* is defined on a third branch only.
GhostIds == {"x"}

\* The revision ids the alembic_version table may hold.
DbRevisions == Ids \cup GhostIds

\* The repository's local branches, as `git branch` lists them.
Branches == <<"current", "other", "target">>

\* The records of the third branch.
OtherRevisions == <<[id |-> "x", down_revision |-> Null]>>

VARIABLES
    revisions,  \* build_revision_chain: the argument
    chain,      \* build_revision_chain: the local `chain`
    current,    \* build_revision_chain: the local `current`
    visited,    \* build_revision_chain: the local `visited`
    bpc,        \* build_revision_chain: position ("start", "walk", "done")
    current_revisions,  \* the records of current_branch's revisions directory
    target_revisions,   \* the records of target_branch's revisions directory
    db_revision,        \* the revision in the database's alembic_version table
    status_rev,         \* what get_current_db_revision returned
    plan,               \* what get_migration_plan returned
    called,             \* get_migration_plan: the calls it made, by name, in order
    ppc,                \* get_migration_plan: position ("call", "returned")
    mode,               \* gco: "targeted" (--repo given) or "discovery"
    skip_migration,     \* gco: the --skip-migration option
    repo_type,          \* the configured type of each repository
    repos,              \* gco: the repositories to switch, in order
    gpc,                \* gco: position
    idx,                \* gco: index of the running loop
    repo_plan,          \* per repository, the plan its pre-checkout obtained
    queries,            \* per repository, what get_migration_plan queried and read
    log,                \* per repository, the prompts and commands so far
    em_call,            \* execute_migration: its arguments and how its commands end
    em_result,          \* execute_migration: the commands issued and what it returned
    epc,                \* execute_migration: position ("call", "returned")
    tree_listed,        \* get_revisions_in_branch: whether `git ls-tree` exits with 0
    tree_entries,       \* get_revisions_in_branch: the entries `git ls-tree` names
    parsed,             \* get_revisions_in_branch: the list it returned
    rpc                 \* get_revisions_in_branch: position ("call", "returned")

chainVars == <<revisions, chain, current, visited, bpc>>

planVars == <<current_revisions, target_revisions, db_revision, status_rev, plan, called, ppc>>

gcoVars == <<mode, skip_migration, repo_type, repos, gpc, idx, repo_plan, queries, log>>

execVars == <<em_call, em_result, epc>>

readVars == <<tree_listed, tree_entries, parsed, rpc>>

vars == <<chainVars, planVars, gcoVars, execVars, readVars>>

\* ---------------------------------------------- get_revisions_in_branch
\* Strings are sequences of characters: Len, Head, Tail, SubSeq and \o apply.
\* str.startswith(prefix)
startswith(str, prefix) ==
    Len(str) >= Len(prefix) /\ SubSeq(str, 1, Len(prefix)) = prefix

\* str.endswith(suffix)
endswith(str, suffix) ==
    Len(str) >= Len(suffix) /\ SubSeq(str, Len(str) - Len(suffix) + 1, Len(str)) = suffix

\* str.lstrip(chars) and str.rstrip(chars), chars a set of characters.
RECURSIVE lstrip(_, _)
lstrip(str, chars) ==
    IF str /= "" /\ Head(str) \in chars THEN lstrip(Tail(str), chars) ELSE str

RECURSIVE rstrip(_, _)
rstrip(str, chars) ==
    IF str /= "" /\ SubSeq(str, Len(str), Len(str)) \in chars
    THEN rstrip(SubSeq(str, 1, Len(str) - 1), chars)
    ELSE str

\* str.strip(chars); str.strip() takes the whitespace characters.
strip(str, chars) == rstrip(lstrip(str, chars), chars)

Whitespace == {" "}

Quotes == {"'", "\""}

\* "=" in line
has_equals(str) == \E i \in 1..Len(str) : SubSeq(str, i, i) = "="

\* line.split("=", 1)[1]: what follows the first "=" of a line that has one.
after_equals(str) ==
    LET first == CHOOSE i \in 1..Len(str) :
                     /\ SubSeq(str, i, i) = "="
                     /\ \A j \in 1..(i-1) : SubSeq(str, j, j) /= "="
    IN  SubSeq(str, first + 1, Len(str))

\* line.split("=", 1)[1].strip().strip("'\"")
assigned_value(str) == strip(strip(after_equals(str), Whitespace), Quotes)

\* Mutant: only the plain assignment syntax is recognised.
parse_line_plain_only(line, st) ==
    LET l == strip(line, Whitespace)
    IN  IF startswith(l, "revision =")
        THEN [st EXCEPT !.revision_id = assigned_value(l)]
        ELSE IF startswith(l, "down_revision =")
        THEN [st EXCEPT !.down_revision =
                  IF assigned_value(l) /= "None" THEN assigned_value(l) ELSE Null]
        ELSE st

\* Lines 162-175: what one line of a script does to the revision_id and
\* down_revision found so far.
parse_line(line, st) ==
    LET l == strip(line, Whitespace)
    IN  IF startswith(l, "revision:") \/ startswith(l, "revision =")
        THEN IF has_equals(l)
             THEN [st EXCEPT !.revision_id = assigned_value(l)]
             ELSE st
        ELSE IF startswith(l, "down_revision:") \/ startswith(l, "down_revision =")
        THEN IF has_equals(l)
             THEN [st EXCEPT !.down_revision =
                       IF assigned_value(l) /= "None" THEN assigned_value(l) ELSE Null]
             ELSE st
        ELSE st

RECURSIVE parse_lines(_, _)
parse_lines(lines, st) ==
    IF lines = <<>> THEN st ELSE parse_lines(Tail(lines), parse_line(Head(lines), st))

\* Lines 142-181: the records one entry of the listing adds: none when
\* `git show` fails or no revision id is found.
parse_script(entry) ==
    IF ~entry.readable
    THEN <<>>
    ELSE LET st == parse_lines(entry.lines, [revision_id |-> Null, down_revision |-> Null])
         IN  IF Truthy(st.revision_id)
             THEN <<[id |-> st.revision_id, down_revision |-> st.down_revision]>>
             ELSE <<>>

\* f.endswith('.py') and not f.endswith('__init__.py')
is_revision_file(name) == endswith(name, ".py") /\ ~endswith(name, "__init__.py")

\* Mutant: the loop over the files ends at the first script that gives no
\* record (break in place of continue).
RECURSIVE parse_entries_break(_)
parse_entries_break(entries) ==
    IF entries = <<>>
    THEN <<>>
    ELSE IF ~is_revision_file(Head(entries).name)
    THEN parse_entries_break(Tail(entries))
    ELSE IF parse_script(Head(entries)) = <<>>
    THEN <<>>
    ELSE parse_script(Head(entries)) \o parse_entries_break(Tail(entries))

RECURSIVE parse_entries(_)
parse_entries(entries) ==
    IF entries = <<>>
    THEN <<>>
    ELSE (IF is_revision_file(Head(entries).name) THEN parse_script(Head(entries)) ELSE <<>>)
             \o parse_entries(Tail(entries))

\* get_revisions_in_branch, given whether `git ls-tree` succeeds on the
\* branch's revisions directory and the entries it names.
get_revisions_in_branch(listed, entries) ==
    IF ~listed THEN <<>> ELSE parse_entries(entries)

\* The names `git ls-tree --name-only` can print for a revisions directory:
\* a migration script, the package file, another file, a subdirectory.
EntryNames == {"0001_a.py", "__init__.py", "README.md", "archive"}

\* The lines of some files: two scripts in the two syntaxes, a file without
\* a revision line, a script with an empty revision id, a script without a
\* revision line but with a down_revision line.
SampleScripts ==
    {<<"revision = 'a'", "down_revision = None">>,
     <<"revision: str = \"b\"", "down_revision: Union[str, None] = 'a'">>,
     <<"import sqlalchemy as sa">>,
     <<"revision = ''", "down_revision = None">>,
     <<"down_revision = 'a'">>}

\* One entry of the listing: its name, whether `git show` gives its content,
\* and the lines of that content.
Entries == [name : EntryNames, readable : BOOLEAN, lines : SampleScripts]

\* At most this many entries in a listing.
MaxFiles == 2

\* The assignment lines a script can carry for `keyword`, annotated with
\* `type` or not: indented or not, with or without blanks around "=", the
\* value in either quote character, in mixed quotes, empty, or None.
AssignmentLines(keyword, type) ==
    {indent \o keyword \o assign \o gap \o value :
        indent \in {"", "    "},
        assign \in {" =", ": " \o type \o " =", "="},
        gap \in {"", " "},
        value \in {q1 \o "a" \o q2 : q1, q2 \in Quotes} \cup {"None", "''"}}

RevisionLines == AssignmentLines("revision", "str")

DownRevisionLines == AssignmentLines("down_revision", "Union[str, None]")

\* The scripts made of at most one revision line and one down_revision line.
Scripts ==
    {<<>>} \cup {<<r>> : r \in RevisionLines} \cup {<<d>> : d \in DownRevisionLines}
        \cup {<<r, d>> : r \in RevisionLines, d \in DownRevisionLines}

\* ------------------------------------------------- build_revision_chain
\* The ids of a record list.
RecordIds(revs) == {revs[i].id : i \in 1..Len(revs)}

\* rev_lookup = {r["id"]: r for r in revisions}: a later record replaces an
\* earlier one with the same id.  The down_revision stored under `id`.
rev_lookup_down(revs, id) ==
    LET last == CHOOSE i \in 1..Len(revs) :
                    /\ revs[i].id = id
                    /\ \A j \in (i+1)..Len(revs) : revs[j].id /= id
    IN  revs[last].down_revision

\* children = {r["down_revision"] for r in revisions if r["down_revision"]}
children(revs) ==
    {revs[i].down_revision : i \in {j \in 1..Len(revs) : Truthy(revs[j].down_revision)}}

\* Mutant: the loop over the records has no break, the head is the last
\* record whose id no record names as its down_revision.
find_head_last(revs) ==
    LET free == {i \in 1..Len(revs) : revs[i].id \notin children(revs)}
    IN  IF free /= {}
        THEN revs[CHOOSE i \in free : \A j \in free : j <= i].id
        ELSE revs[Len(revs)].id

\* Mutant: the search for an unreferenced id is skipped, the head is always
\* revisions[0]["id"].
find_head_first(revs) == revs[1].id

\* The head: the first record whose id no record names as its down_revision;
\* when there is none, the first record.
find_head(revs) ==
    LET free == {i \in 1..Len(revs) : revs[i].id \notin children(revs)}
    IN  IF free /= {}
        THEN revs[CHOOSE i \in free : \A j \in free : i <= j].id
        ELSE revs[1].id

\* Mutant: the walk does not stop at an id it has already visited.
walk_continues_unchecked(revs, cur, vis) ==
    /\ Truthy(cur)
    /\ cur \in RecordIds(revs)

\* The while condition together with the break on a visited id.
walk_continues(revs, cur, vis) ==
    /\ Truthy(cur)
    /\ cur \in RecordIds(revs)
    /\ cur \notin vis

\* Mutant: chain.insert(1, current) in place of chain.insert(0, current).
walk_step_insert_second(revs, st) ==
    [chain   |-> IF st.chain = <<>>
                 THEN <<st.current>>
                 ELSE <<st.chain[1], st.current>> \o Tail(st.chain),
     current |-> rev_lookup_down(revs, st.current),
     visited |-> st.visited \cup {st.current}]

\* Mutant: chain.append(current) in place of chain.insert(0, current).
walk_step_append(revs, st) ==
    [chain   |-> st.chain \o <<st.current>>,
     current |-> rev_lookup_down(revs, st.current),
     visited |-> st.visited \cup {st.current}]

\* One iteration of the walk: chain.insert(0, current); visited.add(current);
\* current = rev_lookup[current]["down_revision"].
walk_step(revs, st) ==
    [chain   |-> <<st.current>> \o st.chain,
     current |-> rev_lookup_down(revs, st.current),
     visited |-> st.visited \cup {st.current}]

RECURSIVE walk(_, _)
walk(revs, st) ==
    IF walk_continues(revs, st.current, st.visited)
    THEN walk(revs, walk_step(revs, st))
    ELSE st.chain

\* build_revision_chain as a function of its argument.
build_revision_chain(revs) ==
    IF revs = <<>>
    THEN <<>>
    ELSE walk(revs, [chain |-> <<>>, current |-> find_head(revs), visited |-> {}])

\* ---------------------------------------------------- get_migration_plan
\* Mutant: chain[0] if chain else None.
chain_head_first(ch) == IF ch /= <<>> THEN ch[1] ELSE Null

\* chain[-1] if chain else None
chain_head(ch) == IF ch /= <<>> THEN ch[Len(ch)] ELSE Null

\* The elements of a chain.
ChainIds(ch) == {ch[i] : i \in 1..Len(ch)}

\* list.index(x): the first position of x (x is an element of ch).
index(ch, x) == CHOOSE i \in 1..Len(ch) : ch[i] = x /\ \A j \in 1..(i-1) : ch[j] /= x

\* Mutant: the current chain is scanned from its root, not reversed from its
\* head.
find_common_revision_first(current_revs, target_revs) ==
    LET current_chain == build_revision_chain(current_revs)
        target_chain  == build_revision_chain(target_revs)
        both == {i \in 1..Len(current_chain) : current_chain[i] \in ChainIds(target_chain)}
    IN  IF both = {}
        THEN Null
        ELSE current_chain[CHOOSE i \in both : \A j \in both : i <= j]

\* find_common_revision: the last element of the current branch's chain that is
\* also in the target branch's chain, or None.
find_common_revision(current_revs, target_revs) ==
    LET current_chain == build_revision_chain(current_revs)
        target_chain  == build_revision_chain(target_revs)
        both == {i \in 1..Len(current_chain) : current_chain[i] \in ChainIds(target_chain)}
    IN  IF both = {}
        THEN Null
        ELSE current_chain[CHOOSE i \in both : \A j \in both : j <= i]

\* find_revision_in_branches: the local branches, in git's order, one of whose
\* parsed records carries revision_id.  `branches` is the list of branch
\* names, `revs_of` their record lists.
find_revision_in_branches(branches, revs_of, revision_id) ==
    SelectSeq(branches, LAMBDA b : revision_id \in RecordIds(revs_of[b]))

\* is_ghost = current_db_rev not in current_rev_ids
is_ghost(current_db_rev, current_revs) == current_db_rev \notin RecordIds(current_revs)

\* Mutant: without the test for a common revision.
needs_downgrade_no_common(common_rev, current_db_rev, current_chain) ==
    IF current_db_rev /= common_rev
    THEN IF common_rev \in ChainIds(current_chain) /\ current_db_rev \in ChainIds(current_chain)
         THEN index(current_chain, current_db_rev) > index(current_chain, common_rev)
         ELSE TRUE
    ELSE FALSE

\* Mutant: the indexes are compared with >=, without the test
\* current_db_rev != common_rev.
needs_downgrade_inclusive(common_rev, current_db_rev, current_chain) ==
    IF Truthy(common_rev)
    THEN IF common_rev \in ChainIds(current_chain) /\ current_db_rev \in ChainIds(current_chain)
         THEN index(current_chain, current_db_rev) >= index(current_chain, common_rev)
         ELSE TRUE
    ELSE FALSE

\* Mutant: the two indexes are compared the wrong way round.
needs_downgrade_reversed(common_rev, current_db_rev, current_chain) ==
    IF Truthy(common_rev) /\ current_db_rev /= common_rev
    THEN IF common_rev \in ChainIds(current_chain) /\ current_db_rev \in ChainIds(current_chain)
         THEN index(current_chain, common_rev) > index(current_chain, current_db_rev)
         ELSE TRUE
    ELSE FALSE

\* Lines 375-386: the downgrade decision of the non-ghost path, the ValueError
\* of list.index included.
needs_downgrade(common_rev, current_db_rev, current_chain) ==
    IF Truthy(common_rev) /\ current_db_rev /= common_rev
    THEN IF common_rev \in ChainIds(current_chain) /\ current_db_rev \in ChainIds(current_chain)
         THEN index(current_chain, current_db_rev) > index(current_chain, common_rev)
         ELSE TRUE
    ELSE FALSE

\* Mutant: bool(target_head), without the comparison with current_db_rev.
needs_upgrade_any_head(target_head, current_db_rev) ==
    Truthy(target_head)

\* Mutant: target_head != current_db_rev, without the test for a head.
needs_upgrade_unguarded(target_head, current_db_rev) ==
    target_head /= current_db_rev

\* bool(target_head and target_head != current_db_rev)
needs_upgrade(target_head, current_db_rev) ==
    Truthy(target_head) /\ target_head /= current_db_rev

\* The results of get_migration_plan: None, an error dict, a plan dict.
NoPlan == [kind |-> "none"]

UnknownRevisionError == [kind |-> "error", error |-> "unknown_revision"]

MissingRevisionError(rev, found) ==
    [kind |-> "error", error |-> "missing_revision",
     missing_revision |-> rev, found_in_branches |-> found]

MigrationPlan(db, common, head, down, up) ==
    [kind |-> "plan", current_db_revision |-> db, common_revision |-> common,
     target_head_revision |-> head, needs_downgrade |-> down, needs_upgrade |-> up]

\* get_migration_plan, given what its reads return: current_db_rev from
\* get_current_db_revision (None when it cannot be determined), the two
\* branches' records from get_revisions_in_branch, and, for the search of all
\* branches, the repository's branch list.
get_migration_plan(current_db_rev, current_revs, target_revs, branches, revs_of) ==
    IF ~Truthy(current_db_rev) THEN UnknownRevisionError
    ELSE IF current_revs = <<>> /\ target_revs = <<>> THEN NoPlan
    ELSE IF is_ghost(current_db_rev, current_revs)
    THEN IF current_db_rev \in RecordIds(target_revs)
         THEN LET target_head == chain_head(build_revision_chain(target_revs))
              IN  MigrationPlan(current_db_rev, Null, target_head, FALSE,
                                needs_upgrade(target_head, current_db_rev))
         ELSE MissingRevisionError(current_db_rev,
                  find_revision_in_branches(branches, revs_of, current_db_rev))
    ELSE LET common_rev    == find_common_revision(current_revs, target_revs)
             current_chain == build_revision_chain(current_revs)
             target_head   == chain_head(build_revision_chain(target_revs))
         IN  MigrationPlan(current_db_rev, common_rev, target_head,
                           needs_downgrade(common_rev, current_db_rev, current_chain),
                           needs_upgrade(target_head, current_db_rev))

\* ------------------------------------------------------ execute_migration
\* How an alembic command run by run_alembic_command can end: exit status 0,
\* a non-zero exit status, the 30 s timeout, or no alembic in the venv (then
\* get_venv_alembic raises before anything is run).
CommandOutcomes == {"ok", "failed", "timeout", "no_venv"}

\* One entry of a repository's log: a prompt with its answer ("yes", "no") or a
\* command with the way it ended.
Event(ev, arg, result) == [ev |-> ev, arg |-> arg, result |-> result]

Prompt(question, answer) == Event(question, Null, IF answer THEN "yes" ELSE "no")

\* run_alembic_command(repo_path, [cmd, arg], check=True, timeout=30): the
\* command as issued (none without a venv).
run_alembic_command(cmd, arg, outcome) ==
    IF outcome = "no_venv" THEN <<>> ELSE <<Event(cmd, arg, outcome)>>

\* The text of the exception run_alembic_command raises.
error_message(outcome) ==
    CASE outcome = "timeout" -> "Alembic command timed out"
      [] outcome = "failed"  -> "Alembic command failed"
      [] outcome = "no_venv" -> "Alembic not found in venv"
      [] OTHER               -> ""

\* Mutant: a command that times out is taken to have completed.
execute_migration_timeout_ok(downgrade_to, upgrade, down_outcome, up_outcome) ==
    LET down == IF Truthy(downgrade_to)
                THEN run_alembic_command("downgrade", downgrade_to, down_outcome)
                ELSE <<>>
        up   == run_alembic_command("upgrade", "head", up_outcome)
    IN  IF Truthy(downgrade_to) /\ down_outcome \notin {"ok", "timeout"}
        THEN [events |-> down, success |-> FALSE, error |-> error_message(down_outcome)]
        ELSE IF upgrade /\ up_outcome \notin {"ok", "timeout"}
        THEN [events |-> down \o up, success |-> FALSE, error |-> error_message(up_outcome)]
        ELSE IF upgrade
        THEN [events |-> down \o up, success |-> TRUE, error |-> ""]
        ELSE [events |-> down, success |-> TRUE, error |-> ""]

\* execute_migration(repo_path, downgrade_to, upgrade): the commands it issues
\* and the (success, error_message) it returns, given how each command ends.
execute_migration(downgrade_to, upgrade, down_outcome, up_outcome) ==
    LET down == IF Truthy(downgrade_to)
                THEN run_alembic_command("downgrade", downgrade_to, down_outcome)
                ELSE <<>>
        up   == run_alembic_command("upgrade", "head", up_outcome)
    IN  IF Truthy(downgrade_to) /\ down_outcome /= "ok"
        THEN [events |-> down, success |-> FALSE, error |-> error_message(down_outcome)]
        ELSE IF upgrade /\ up_outcome /= "ok"
        THEN [events |-> down \o up, success |-> FALSE, error |-> error_message(up_outcome)]
        ELSE IF upgrade
        THEN [events |-> down \o up, success |-> TRUE, error |-> ""]
        ELSE [events |-> down, success |-> TRUE, error |-> ""]

\* ------------------------------------------- what get_migration_plan reads
\* How the status query `alembic current` of get_current_db_revision can end:
\* exit status 0 with a revision id in its output, exit status 0 without one,
\* a non-zero exit status whose stderr names the revision alembic cannot
\* locate, any other non-zero exit status, the 25 s timeout, no alembic in the
\* venv.
StatusOutcomes == {"ok", "no_id", "cant_locate", "failed", "timeout", "no_venv"}

\* get_current_db_revision: the revision id found in the output or recovered
\* from stderr, None otherwise.  `version` is the revision the
\* alembic_version table holds.
get_current_db_revision(outcome, version) ==
    IF outcome \in {"ok", "cant_locate"} THEN version ELSE Null

\* Mutant: the two branches are read before the status query's result is
\* looked at.
get_migration_plan_calls_read_first(outcome, version, current_revs, target_revs) ==
    <<Event("get_current_db_revision", Null, outcome),
      Event("get_revisions_in_branch", "current", "ok"),
      Event("get_revisions_in_branch", "target", "ok")>>
    \o IF /\ Truthy(get_current_db_revision(outcome, version))
          /\ ~(current_revs = <<>> /\ target_revs = <<>>)
          /\ is_ghost(version, current_revs)
          /\ version \notin RecordIds(target_revs)
       THEN <<Event("find_revision_in_branches", version, "ok")>>
       ELSE <<>>

\* Mutant: a ghost revision found on the target branch is stamped into the
\* database with an upgrade during planning.
get_migration_plan_calls_upgrade(outcome, version, current_revs, target_revs) ==
    LET current_db_rev == get_current_db_revision(outcome, version)
        status == <<Event("get_current_db_revision", Null, outcome)>>
        reads  == <<Event("get_revisions_in_branch", "current", "ok"),
                    Event("get_revisions_in_branch", "target", "ok")>>
    IN  IF ~Truthy(current_db_rev) THEN status
        ELSE IF current_revs = <<>> /\ target_revs = <<>> THEN status \o reads
        ELSE IF is_ghost(current_db_rev, current_revs)
        THEN IF current_db_rev \in RecordIds(target_revs)
             THEN status \o reads \o <<Event("upgrade", "head", "ok")>>
             ELSE status \o reads
                      \o <<Event("find_revision_in_branches", current_db_rev, "ok")>>
        ELSE status \o reads

\* Mutant: the branches are searched for every ghost revision, before the
\* target branch's records are looked at.
get_migration_plan_calls_search_ghost(outcome, version, current_revs, target_revs) ==
    LET current_db_rev == get_current_db_revision(outcome, version)
        status == <<Event("get_current_db_revision", Null, outcome)>>
        reads  == <<Event("get_revisions_in_branch", "current", "ok"),
                    Event("get_revisions_in_branch", "target", "ok")>>
    IN  IF ~Truthy(current_db_rev) THEN status
        ELSE IF current_revs = <<>> /\ target_revs = <<>> THEN status \o reads
        ELSE IF is_ghost(current_db_rev, current_revs)
        THEN status \o reads
                 \o <<Event("find_revision_in_branches", current_db_rev, "ok")>>
        ELSE status \o reads

\* The status query, branch reads and branch search get_migration_plan makes,
\* in order, on its way to the result.
get_migration_plan_calls(outcome, version, current_revs, target_revs) ==
    LET current_db_rev == get_current_db_revision(outcome, version)
        status == <<Event("get_current_db_revision", Null, outcome)>>
        reads  == <<Event("get_revisions_in_branch", "current", "ok"),
                    Event("get_revisions_in_branch", "target", "ok")>>
    IN  IF ~Truthy(current_db_rev) THEN status
        ELSE IF current_revs = <<>> /\ target_revs = <<>> THEN status \o reads
        ELSE IF is_ghost(current_db_rev, current_revs)
                /\ current_db_rev \notin RecordIds(target_revs)
        THEN status \o reads
                 \o <<Event("find_revision_in_branches", current_db_rev, "ok")>>
        ELSE status \o reads

\* The names of a sequence of calls.
call_names(calls) == [i \in 1..Len(calls) |-> calls[i].ev]

\* What get_migration_plan has queried when it raises: a revision from the
\* status query (get_current_db_revision catches every exception) and a
\* branch read that did not return.
raised_calls ==
    <<Event("get_current_db_revision", Null, "ok"),
      Event("get_revisions_in_branch", "current", "raised")>>

\* ------------------------------------------------------------ cli handlers
\* The repositories of the workspace configuration, in configured order.
RepoNames == {"r1", "r2"}

AllRepos == <<"r1", "r2">>

RepoTypes == {"db-alembic", "service"}

\* The lists gco works on: the repositories named by --repo, or the
\* candidates that have the branch.
RepoLists == {SubSeq(AllRepos, 1, k) : k \in 0..Len(AllRepos)}

\* No plan has been asked for.
NotPlanned == [kind |-> "absent"]

\* Mutant: a downgrade that did not complete is run a second time.
pre_checkout_downgrade_retry(p, down_outcome, continue_answer) ==
    IF p.needs_downgrade /\ Truthy(p.common_revision)
    THEN LET m == execute_migration(p.common_revision, FALSE, down_outcome, "ok")
         IN  IF ~m.success
             THEN [events |-> m.events \o m.events
                                  \o <<Prompt("confirm_continue", continue_answer)>>,
                   proceed |-> continue_answer]
             ELSE [events |-> m.events, proceed |-> TRUE]
    ELSE [events |-> <<>>, proceed |-> TRUE]

\* Lines 447-460 of handle_alembic_pre_checkout: the downgrade of the plan,
\* and on its failure "Continue with checkout anyway?".
pre_checkout_downgrade(p, down_outcome, continue_answer) ==
    IF p.needs_downgrade /\ Truthy(p.common_revision)
    THEN LET m == execute_migration(p.common_revision, FALSE, down_outcome, "ok")
         IN  IF ~m.success
             THEN [events |-> m.events \o <<Prompt("confirm_continue", continue_answer)>>,
                   proceed |-> continue_answer]
             ELSE [events |-> m.events, proceed |-> TRUE]
    ELSE [events |-> <<>>, proceed |-> TRUE]

\* Mutant: the answer to "Proceed with database migration?" is not looked at.
handle_alembic_pre_checkout_unasked(p, raised, skip_answer, proceed_answer, down_outcome, continue_answer) ==
    IF raised
    THEN [events |-> <<Prompt("confirm_skip", skip_answer)>>, proceed |-> skip_answer]
    ELSE IF p.kind = "none"
    THEN [events |-> <<>>, proceed |-> TRUE]
    ELSE IF p.kind = "error"
    THEN [events |-> <<Prompt("confirm_skip", skip_answer)>>, proceed |-> skip_answer]
    ELSE LET d == pre_checkout_downgrade(p, down_outcome, continue_answer)
         IN  [events |-> <<Prompt("confirm_proceed", proceed_answer)>> \o d.events,
              proceed |-> d.proceed]

\* handle_alembic_pre_checkout: the prompts and commands it issues, in order,
\* and whether it tells gco to go on with the checkout.  p is what
\* get_migration_plan returns, raised whether it raises instead; the answers
\* are the operator's, down_outcome the way the downgrade command ends.
handle_alembic_pre_checkout(p, raised, skip_answer, proceed_answer, down_outcome, continue_answer) ==
    IF raised
    THEN [events |-> <<Prompt("confirm_skip", skip_answer)>>, proceed |-> skip_answer]
    ELSE IF p.kind = "none"
    THEN [events |-> <<>>, proceed |-> TRUE]
    ELSE IF p.kind = "error"
    THEN [events |-> <<Prompt("confirm_skip", skip_answer)>>, proceed |-> skip_answer]
    ELSE IF ~proceed_answer
    THEN [events |-> <<Prompt("confirm_proceed", FALSE)>>, proceed |-> FALSE]
    ELSE LET d == pre_checkout_downgrade(p, down_outcome, continue_answer)
         IN  [events |-> <<Prompt("confirm_proceed", TRUE)>> \o d.events,
              proceed |-> d.proceed]

\* Mutant: a failed upgrade is rolled back with a downgrade.
handle_alembic_post_checkout_rollback(up_outcome) ==
    LET m == execute_migration(Null, TRUE, "ok", up_outcome)
    IN  IF m.success THEN m.events
        ELSE m.events \o run_alembic_command("downgrade", "-1", "ok")

\* handle_alembic_post_checkout: the commands it issues.
handle_alembic_post_checkout(up_outcome) ==
    execute_migration(Null, TRUE, "ok", up_outcome).events

\* git_ops.checkout(path, branch, ...): the command as issued.
checkout(success) == <<Event("checkout", "target", IF success THEN "ok" ELSE "failed")>>

\* r.get("type") == "db-alembic" and not skip_migration
migrates(type, skip) == type = "db-alembic" /\ ~skip

\* Mutant: the post-checkout runs whether or not the checkout succeeded.
post_checkout_due_any(success, type, skip) == migrates(type, skip)

\* success and r.get("type") == "db-alembic" and not skip_migration
post_checkout_due(success, type, skip) == success /\ migrates(type, skip)

\* The branch contents the gco specification draws a repository's plan from:
\* every list of scripts over two revision ids.
GcoIds == {"a", "b"}

GcoLists ==
    {l \in BranchLists(MaxBranchRevisions) :
        \A i \in 1..Len(l) : l[i].id \in GcoIds /\ l[i].down_revision \in GcoIds \cup {Null}}

\* The runs of get_migration_plan on such branches, for a database at one of
\* their revisions or at the ghost revision "x" and every way the status
\* query can end: what it returns and what it queries and reads.
PossibleRuns ==
    {[plan  |-> get_migration_plan(get_current_db_revision(outcome, version), cr, tr,
                    Branches,
                    [b \in {"current", "other", "target"} |->
                        IF b = "current" THEN cr
                        ELSE IF b = "target" THEN tr
                        ELSE OtherRevisions]),
      calls |-> get_migration_plan_calls(outcome, version, cr, tr)] :
        outcome \in StatusOutcomes, version \in GcoIds \cup {"x"},
        cr \in GcoLists, tr \in GcoLists}

\* --------------------------------------------------------- idle parts
\* A specification leaves the variables of the others at these values.
ChainIdle ==
    /\ revisions = <<>>
    /\ chain = <<>>
    /\ current = Null
    /\ visited = {}
    /\ bpc = "idle"

PlanIdle ==
    /\ current_revisions = <<>>
    /\ target_revisions = <<>>
    /\ db_revision = Null
    /\ status_rev = Null
    /\ plan = NoPlan
    /\ called = <<>>
    /\ ppc = "idle"

GcoIdle ==
    /\ mode = "idle"
    /\ skip_migration = FALSE
    /\ repo_type = [r \in RepoNames |-> "service"]
    /\ repos = <<>>
    /\ gpc = "idle"
    /\ idx = 0
    /\ repo_plan = [r \in RepoNames |-> NotPlanned]
    /\ queries = [r \in RepoNames |-> <<>>]
    /\ log = [r \in RepoNames |-> <<>>]

ExecIdle ==
    /\ em_call = [downgrade_to |-> Null, upgrade |-> FALSE,
                  down_outcome |-> "ok", up_outcome |-> "ok"]
    /\ em_result = [events |-> <<>>, success |-> TRUE, error |-> ""]
    /\ epc = "idle"

ReadIdle ==
    /\ tree_listed = FALSE
    /\ tree_entries = <<>>
    /\ parsed = <<>>
    /\ rpc = "idle"

\* --------------------------------------------------------------- SpecChain
InitChain ==
    /\ revisions \in RevisionLists(MaxRevisions)
    /\ chain = <<>>
    /\ current = Null
    /\ visited = {}
    /\ bpc = "start"
    /\ PlanIdle
    /\ GcoIdle
    /\ ExecIdle
    /\ ReadIdle

\* Lines 192-213: the empty list returns at once; otherwise the head is found
\* and the walk starts from it.
BuildStart ==
    /\ bpc = "start"
    /\ IF revisions = <<>>
       THEN /\ bpc' = "done"
            /\ UNCHANGED <<chain, current, visited>>
       ELSE /\ bpc' = "walk"
            /\ chain' = <<>>
            /\ current' = find_head(revisions)
            /\ visited' = {}
    /\ UNCHANGED <<revisions, planVars, gcoVars, execVars, readVars>>

\* Lines 215-221: one iteration of the while loop.
WalkStep ==
    /\ bpc = "walk"
    /\ walk_continues(revisions, current, visited)
    /\ LET st == walk_step(revisions, [chain |-> chain, current |-> current, visited |-> visited])
       IN  /\ chain' = st.chain
           /\ current' = st.current
           /\ visited' = st.visited
    /\ UNCHANGED <<revisions, bpc, planVars, gcoVars, execVars, readVars>>

\* Lines 215-218, 223: the loop ends (condition false, or break) and the chain
\* is returned.
WalkExit ==
    /\ bpc = "walk"
    /\ ~walk_continues(revisions, current, visited)
    /\ bpc' = "done"
    /\ UNCHANGED <<revisions, chain, current, visited, planVars, gcoVars, execVars, readVars>>

NextChain == BuildStart \/ WalkStep \/ WalkExit

SpecChain == InitChain /\ [][NextChain]_vars

\* ---------------------------------------------------------------- SpecPlan
\* The records get_revisions_in_branch returns for each local branch.
revs_of_branch ==
    [b \in {"current", "other", "target"} |->
        IF b = "current" THEN current_revisions
        ELSE IF b = "target" THEN target_revisions
        ELSE OtherRevisions]

InitPlan ==
    /\ current_revisions \in BranchLists(MaxBranchRevisions)
    /\ target_revisions \in BranchLists(MaxBranchRevisions)
    /\ db_revision \in DbRevisions
    /\ status_rev = Null
    /\ plan = NoPlan
    /\ called = <<>>
    /\ ppc = "call"
    /\ ChainIdle
    /\ GcoIdle
    /\ ExecIdle
    /\ ReadIdle

\* get_migration_plan(repo_path, current_branch, target_branch, revisions_dir).
\* The status query returns the database's revision, or None when it fails,
\* times out or prints no revision id.
GetMigrationPlan ==
    /\ ppc = "call"
    /\ \E outcome \in StatusOutcomes :
          LET rev == get_current_db_revision(outcome, db_revision)
          IN  /\ status_rev' = rev
              /\ plan' = get_migration_plan(rev, current_revisions, target_revisions,
                                            Branches, revs_of_branch)
              /\ called' = call_names(get_migration_plan_calls(outcome, db_revision,
                                          current_revisions, target_revisions))
    /\ ppc' = "returned"
    /\ UNCHANGED <<current_revisions, target_revisions, db_revision, chainVars, gcoVars, execVars, readVars>>

NextPlan == GetMigrationPlan

SpecPlan == InitPlan /\ [][NextPlan]_vars

\* --------------------------------------------------------------- Spec (gco)
InitGco ==
    /\ mode \in {"targeted", "discovery"}
    /\ skip_migration \in BOOLEAN
    /\ repo_type \in [RepoNames -> RepoTypes]
    /\ repos \in RepoLists
    /\ mode = "targeted" => repos /= <<>>
    /\ gpc = "start"
    /\ idx = 0
    /\ repo_plan = [r \in RepoNames |-> NotPlanned]
    /\ queries = [r \in RepoNames |-> <<>>]
    /\ log = [r \in RepoNames |-> <<>>]
    /\ ChainIdle
    /\ PlanIdle
    /\ ExecIdle
    /\ ReadIdle

\* gco, db-alembic repositories among those it works on (line 581).
db_alembic_repos == SelectSeq(repos, LAMBDA r : repo_type[r] = "db-alembic")

\* handle_alembic_pre_checkout for repository r, any plan, answers and command
\* outcome; go_on is whether it returned True.
PreCheckout(r, go_on) ==
    \E run \in PossibleRuns, raised, skip_answer, proceed_answer, continue_answer \in BOOLEAN,
       down_outcome \in CommandOutcomes :
        LET p   == run.plan
            res == handle_alembic_pre_checkout(p, raised, skip_answer, proceed_answer,
                                               down_outcome, continue_answer)
        IN  /\ go_on = res.proceed
            /\ repo_plan' = [repo_plan EXCEPT ![r] = IF raised THEN NotPlanned ELSE p]
            /\ queries' = [queries EXCEPT
                              ![r] = @ \o IF raised THEN raised_calls ELSE run.calls]
            /\ log' = [log EXCEPT ![r] = @ \o res.events]

\* Lines 519-521 and 540-554: targeted mode enters its loop; discovery mode
\* collects the candidates and returns when there are none.
GcoStart ==
    /\ gpc = "start"
    /\ IF mode = "targeted"
       THEN gpc' = "pre" /\ idx' = 1
       ELSE IF repos = <<>>
       THEN gpc' = "done" /\ idx' = idx
       ELSE gpc' = "confirm" /\ idx' = idx
    /\ UNCHANGED <<mode, skip_migration, repo_type, repos, repo_plan, queries, log, chainVars, planVars, execVars, readVars>>

\* The end of one iteration of a loop over `list`.
NextRepo(list, again) ==
    IF idx < Len(list)
    THEN idx' = idx + 1 /\ gpc' = again
    ELSE idx' = idx /\ gpc' = "done"

\* Lines 522-530: the pre-checkout of one repository in targeted mode; a
\* refusal skips the repository.
TargetedPreCheckout ==
    /\ gpc = "pre" /\ mode = "targeted"
    /\ IF migrates(repo_type[repos[idx]], skip_migration)
       THEN \E go_on \in BOOLEAN :
               /\ PreCheckout(repos[idx], go_on)
               /\ IF go_on THEN gpc' = "checkout" /\ idx' = idx
                           ELSE NextRepo(repos, "pre")
       ELSE /\ gpc' = "checkout" /\ idx' = idx
            /\ UNCHANGED <<repo_plan, queries, log>>
    /\ UNCHANGED <<mode, skip_migration, repo_type, repos, chainVars, planVars, execVars, readVars>>

\* Lines 532-536: the git checkout of one repository in targeted mode.
TargetedCheckout ==
    /\ gpc = "checkout" /\ mode = "targeted"
    /\ \E success \in BOOLEAN :
          /\ log' = [log EXCEPT ![repos[idx]] = @ \o checkout(success)]
          /\ IF post_checkout_due(success, repo_type[repos[idx]], skip_migration)
             THEN gpc' = "post" /\ idx' = idx
             ELSE NextRepo(repos, "pre")
    /\ UNCHANGED <<mode, skip_migration, repo_type, repos, repo_plan, queries, chainVars, planVars, execVars, readVars>>

\* Line 537: the post-checkout of one repository in targeted mode.
TargetedPostCheckout ==
    /\ gpc = "post" /\ mode = "targeted"
    /\ \E up_outcome \in CommandOutcomes :
          log' = [log EXCEPT ![repos[idx]] = @ \o handle_alembic_post_checkout(up_outcome)]
    /\ NextRepo(repos, "pre")
    /\ UNCHANGED <<mode, skip_migration, repo_type, repos, repo_plan, queries, chainVars, planVars, execVars, readVars>>

\* Lines 578-581: "Switch these repos?".
DiscoveryConfirm ==
    /\ gpc = "confirm"
    /\ \E answer \in BOOLEAN :
          IF ~answer
          THEN gpc' = "done" /\ idx' = idx
          ELSE IF ~skip_migration /\ db_alembic_repos /= <<>>
          THEN gpc' = "pre" /\ idx' = 1
          ELSE gpc' = "checkout" /\ idx' = 1
    /\ UNCHANGED <<mode, skip_migration, repo_type, repos, repo_plan, queries, log, chainVars, planVars, execVars, readVars>>

\* Lines 582-588: the pre-checkout of one db-alembic candidate in discovery
\* mode; a refusal ends the command.
DiscoveryPreCheckout ==
    /\ gpc = "pre" /\ mode = "discovery"
    /\ \E go_on \in BOOLEAN :
          /\ PreCheckout(db_alembic_repos[idx], go_on)
          /\ IF ~go_on
             THEN gpc' = "done" /\ idx' = idx
             ELSE IF idx < Len(db_alembic_repos)
             THEN gpc' = "pre" /\ idx' = idx + 1
             ELSE gpc' = "checkout" /\ idx' = 1
    /\ UNCHANGED <<mode, skip_migration, repo_type, repos, chainVars, planVars, execVars, readVars>>

\* Lines 591-596: the git checkout of one candidate in discovery mode.
DiscoveryCheckout ==
    /\ gpc = "checkout" /\ mode = "discovery"
    /\ \E success \in BOOLEAN :
          /\ log' = [log EXCEPT ![repos[idx]] = @ \o checkout(success)]
          /\ IF post_checkout_due(success, repo_type[repos[idx]], skip_migration)
             THEN gpc' = "post" /\ idx' = idx
             ELSE NextRepo(repos, "checkout")
    /\ UNCHANGED <<mode, skip_migration, repo_type, repos, repo_plan, queries, chainVars, planVars, execVars, readVars>>

\* Line 597: the post-checkout of one candidate in discovery mode.
DiscoveryPostCheckout ==
    /\ gpc = "post" /\ mode = "discovery"
    /\ \E up_outcome \in CommandOutcomes :
          log' = [log EXCEPT ![repos[idx]] = @ \o handle_alembic_post_checkout(up_outcome)]
    /\ NextRepo(repos, "checkout")
    /\ UNCHANGED <<mode, skip_migration, repo_type, repos, repo_plan, queries, chainVars, planVars, execVars, readVars>>

Next ==
    \/ GcoStart
    \/ TargetedPreCheckout
    \/ TargetedCheckout
    \/ TargetedPostCheckout
    \/ DiscoveryConfirm
    \/ DiscoveryPreCheckout
    \/ DiscoveryCheckout
    \/ DiscoveryPostCheckout

Init == InitGco

Spec == Init /\ [][Next]_vars

\* ---------------------------------------------------------------- SpecRead
\* A call of get_revisions_in_branch: the directory is on the branch or not;
\* its listing is any list of entries, or one readable script of any lines.
InitRead ==
    /\ tree_listed \in BOOLEAN
    /\ tree_entries \in
          UNION {[1..k -> Entries] : k \in 0..MaxFiles}
              \cup {<<[name |-> "0001_a.py", readable |-> TRUE, lines |-> l]>> : l \in Scripts}
    /\ parsed = <<>>
    /\ rpc = "call"
    /\ ChainIdle
    /\ PlanIdle
    /\ GcoIdle
    /\ ExecIdle

\* get_revisions_in_branch(repo_path, branch_name, revisions_dir) runs and
\* returns.
GetRevisionsInBranch ==
    /\ rpc = "call"
    /\ parsed' = get_revisions_in_branch(tree_listed, tree_entries)
    /\ rpc' = "returned"
    /\ UNCHANGED <<tree_listed, tree_entries, chainVars, planVars, gcoVars, execVars>>

NextRead == GetRevisionsInBranch

SpecRead == InitRead /\ [][NextRead]_vars

\* ---------------------------------------------------------------- SpecExec
\* A call of execute_migration: any revision to downgrade to or none, with
\* or without the upgrade, and every way each command can end.
InitExec ==
    /\ em_call \in [downgrade_to : Ids \cup {Null}, upgrade : BOOLEAN,
                     down_outcome : CommandOutcomes, up_outcome : CommandOutcomes]
    /\ em_result = [events |-> <<>>, success |-> TRUE, error |-> ""]
    /\ epc = "call"
    /\ ChainIdle
    /\ PlanIdle
    /\ GcoIdle
    /\ ReadIdle

\* execute_migration(repo_path, downgrade_to, upgrade) runs and returns.
ExecuteMigration ==
    /\ epc = "call"
    /\ em_result' = execute_migration(em_call.downgrade_to, em_call.upgrade,
                                      em_call.down_outcome, em_call.up_outcome)
    /\ epc' = "returned"
    /\ UNCHANGED <<em_call, chainVars, planVars, gcoVars, readVars>>

NextExec == ExecuteMigration

SpecExec == InitExec /\ [][NextExec]_vars

\* The stepwise walk and the function agree on the returned chain.
ChainAgrees == bpc = "done" => chain = build_revision_chain(revisions)

\* ------------------------------------------------ shape of a record list
\* The down_revision links of a record list, as (id, down_revision) pairs.
Links(revs) ==
    {<<revs[i].id, revs[i].down_revision>> :
        i \in {j \in 1..Len(revs) : Truthy(revs[j].down_revision)}}

\* The ids reachable from the set S along links, S included.
RECURSIVE Reach(_, _)
Reach(E, S) ==
    LET N == S \cup {e[2] : e \in {f \in E : f[1] \in S}}
    IN  IF N = S THEN S ELSE Reach(E, N)

\* Some id reaches itself along one or more links (a record naming itself
\* included).
HasCycle(revs) ==
    \E x \in RecordIds(revs) :
        x \in Reach(Links(revs), {e[2] : e \in {f \in Links(revs) : f[1] = x}})

\* The ids no record names as its down_revision.
Heads(revs) == RecordIds(revs) \ children(revs)

\* Every non-null down_revision names a record of the list.
Closed(revs) == children(revs) \subseteq RecordIds(revs)

\* The first element of the returned chain is a record whose down_revision
\* is null.
RootIsBase == chain /= <<>> => rev_lookup_down(revisions, chain[1]) = Null

\* ---------------------------------------------------------------- C1
\* C1 (as stated): for every record list without a cycle, also one with
\* several heads or with a down_revision naming no record, the returned chain
\* is as long as the number of distinct ids and starts at a record whose
\* down_revision is null.
C1_AnyAcyclicSet ==
    (bpc = "done" /\ ~HasCycle(revisions)) =>
        /\ Len(chain) = Cardinality(RecordIds(revisions))
        /\ RootIsBase

\* C1 (amended): for every record list without a cycle whose ids are unique,
\* that has exactly one head and whose non-null down_revisions all name a
\* record of the list, the returned chain is as long as the number of
\* distinct ids and starts at a record whose down_revision is null.
C1_LinearSet ==
    (/\ bpc = "done"
     /\ ~HasCycle(revisions)
     /\ UniqueIds(revisions)
     /\ Cardinality(Heads(revisions)) = 1
     /\ Closed(revisions)) =>
        /\ Len(chain) = Cardinality(RecordIds(revisions))
        /\ RootIsBase

\* A linear three-record history, listed out of order, has been chained.
C1_Witness ==
    /\ bpc = "done"
    /\ ~HasCycle(revisions)
    /\ UniqueIds(revisions)
    /\ Cardinality(Heads(revisions)) = 1
    /\ Closed(revisions)
    /\ Len(revisions) = 3
    /\ revisions[1].down_revision /= Null
    /\ Len(chain) = 3

\* ---------------------------------------------------------------- C10
\* C10: for every record list with a cycle in its down_revision links (a
\* record naming itself included) the walk ends: every iteration adds one
\* not yet visited record id to the chain, so the chain, and with it the
\* number of iterations, never exceeds the number of distinct record ids.
C10_CycleBounded ==
    HasCycle(revisions) =>
        /\ visited \subseteq RecordIds(revisions)
        /\ Len(chain) = Cardinality(visited)
        /\ Len(chain) <= Cardinality(RecordIds(revisions))

\* A walk over a list in which every record is on a cycle has returned,
\* after the break on a visited id.
C10_Witness ==
    /\ bpc = "done"
    /\ HasCycle(revisions)
    /\ Heads(revisions) = {}
    /\ current \in visited
    /\ Len(chain) >= 2

\* -------------------------------------------------- planner claims (SpecPlan)
\* The chains of the branch being left and of the branch being entered.
SourceChain == build_revision_chain(current_revisions)

TargetChain == build_revision_chain(target_revisions)

\* get_migration_plan has returned and the status query gave a revision.
Planned == ppc = "returned" /\ Truthy(status_rev)

\* The common revision of two chains: the element of ch1 with the highest
\* index that is also in ch2.
LastCommonIndex(ch1, ch2) ==
    LET both == {i \in 1..Len(ch1) : ch1[i] \in ChainIds(ch2)}
    IN  IF both = {} THEN 0 ELSE CHOOSE i \in both : \A j \in both : j <= i

\* ---------------------------------------------------------------- C2
\* C2: if the current database revision is in neither the source chain nor
\* the target chain, empty chains included, get_migration_plan returns an
\* error result whose missing_revision is the current database revision.
C2_MissingRevisionError ==
    (/\ Planned
     /\ status_rev \notin ChainIds(SourceChain)
     /\ status_rev \notin ChainIds(TargetChain)) =>
        /\ plan.kind = "error"
        /\ plan.error = "missing_revision"
        /\ plan.missing_revision = status_rev

\* ---------------------------------------------------------------- C3
\* C3: if the current database revision is not in the source branch's chain
\* but is in the target branch's chain, the returned plan has
\* needs_downgrade = false.
C3_GhostInTargetNoDowngrade ==
    (/\ Planned
     /\ status_rev \notin ChainIds(SourceChain)
     /\ status_rev \in ChainIds(TargetChain)) =>
        /\ plan.kind = "plan"
        /\ ~plan.needs_downgrade

\* ---------------------------------------------------------------- C4
\* C4: when the current database revision is at index i of the source chain
\* and the common revision at index j <= i of it, needs_downgrade is true
\* exactly when i > j.
C4_DowngradeIffAhead ==
    LET j == LastCommonIndex(SourceChain, TargetChain)
    IN  (/\ Planned
         /\ status_rev \in ChainIds(SourceChain)
         /\ j >= 1
         /\ j <= index(SourceChain, status_rev)) =>
            /\ plan.kind = "plan"
            /\ plan.needs_downgrade <=> (index(SourceChain, status_rev) > j)

\* A plan for a database ahead of the common revision: a downgrade to it.
C4_Witness ==
    /\ Planned
    /\ status_rev \in ChainIds(SourceChain)
    /\ LastCommonIndex(SourceChain, TargetChain) >= 1
    /\ index(SourceChain, status_rev) > LastCommonIndex(SourceChain, TargetChain)
    /\ plan.kind = "plan"
    /\ plan.needs_downgrade
    /\ plan.common_revision = SourceChain[LastCommonIndex(SourceChain, TargetChain)]

\* ------------------------------------------------------- gco claims (Spec)
\* Some entry of repository r's log is the event ev.
Logged(r, ev) == \E i \in 1..Len(log[r]) : log[r][i].ev = ev

\* The operator answered no to "Proceed with database migration?".
Declined(r) == \E i \in 1..Len(log[r]) : log[r][i] = Prompt("confirm_proceed", FALSE)

\* ---------------------------------------------------------------- C5
\* C5: within the branch switch of a repository no downgrade command is
\* issued after an upgrade command: every downgrade in the repository's log
\* stands before every upgrade.
C5_DowngradeBeforeUpgrade ==
    \A r \in RepoNames : \A i, j \in 1..Len(log[r]) :
        (log[r][i].ev = "downgrade" /\ log[r][j].ev = "upgrade") => i < j

\* A repository whose switch issued a downgrade and an upgrade.
C5_Witness ==
    \E r \in RepoNames : Logged(r, "downgrade") /\ Logged(r, "upgrade")

\* ---------------------------------------------------------------- C6
\* C6: after a downgrade command that failed (non-zero exit or timeout) no
\* upgrade command is issued for that repository, whatever the operator
\* answers.
C6_NoUpgradeAfterFailedDowngrade ==
    \A r \in RepoNames : \A i, j \in 1..Len(log[r]) :
        (log[r][i].ev = "downgrade" /\ log[r][i].result /= "ok" /\ i < j)
            => log[r][j].ev /= "upgrade"

\* ---------------------------------------------------------------- C7
\* C7 (as stated): every migration command of a repository, downgrade and
\* upgrade, is issued before its git checkout.
C7_MigrationBeforeCheckout ==
    \A r \in RepoNames : \A i, j \in 1..Len(log[r]) :
        (log[r][i].ev \in {"downgrade", "upgrade"} /\ log[r][j].ev = "checkout") => i < j

\* C7 (amended): the downgrade of a repository is issued before its git
\* checkout, and its upgrade only after that checkout has succeeded.
C7_DowngradeBeforeUpgradeAfterCheckout ==
    \A r \in RepoNames : \A i \in 1..Len(log[r]) :
        /\ log[r][i].ev = "downgrade" =>
              \A j \in 1..Len(log[r]) : log[r][j].ev = "checkout" => i < j
        /\ log[r][i].ev = "upgrade" =>
              \E j \in 1..(i-1) : log[r][j] = Event("checkout", "target", "ok")

\* A repository switched with a downgrade, the checkout and an upgrade.
C7_Witness ==
    \E r \in RepoNames :
        /\ Len(log[r]) = 4
        /\ log[r][2].ev = "downgrade"
        /\ log[r][3].ev = "checkout"
        /\ log[r][4].ev = "upgrade"

\* ---------------------------------------------------------------- C8
\* C8: an upgrade command is issued for a repository only if the plan of
\* that switch has needs_upgrade = true; with no plan, an error, or
\* needs_upgrade = false there is no upgrade.
C8_UpgradeOnlyIfNeeded ==
    \A r \in RepoNames :
        Logged(r, "upgrade") => (repo_plan[r].kind = "plan" /\ repo_plan[r].needs_upgrade)

\* ---------------------------------------------------------------- C9
\* C9: if the operator declines "Proceed with database migration?", neither a
\* downgrade nor an upgrade command is issued for that repository.
C9_DeclinedNoMigration ==
    \A r \in RepoNames :
        Declined(r) => (~Logged(r, "downgrade") /\ ~Logged(r, "upgrade"))

\* The operator declined for the second repository of a targeted switch whose
\* plan asked for a downgrade, and gco has ended.
C9_Witness ==
    /\ gpc = "done"
    /\ mode = "targeted"
    /\ Len(repos) = 2
    /\ Declined(repos[2])
    /\ repo_plan[repos[2]].kind = "plan"
    /\ repo_plan[repos[2]].needs_downgrade

\* ---------------------------------------------------------------- C11
\* C11: in every chain build_revision_chain returns, and in the chain at
\* every iteration on the way to it, no id occurs twice and every element
\* but the first is a record whose down_revision is the element before it.
C11_ChainLinked ==
    /\ \A i, j \in 1..Len(chain) : chain[i] = chain[j] => i = j
    /\ \A k \in 2..Len(chain) :
          /\ chain[k] \in RecordIds(revisions)
          /\ rev_lookup_down(revisions, chain[k]) = chain[k-1]

\* A chain of three ids has been returned for a list whose first record is
\* the head.
C11_Witness ==
    /\ bpc = "done"
    /\ Len(chain) = 3
    /\ chain[3] = revisions[1].id

\* ---------------------------------------------------------------- C12
\* C12: whatever record lists the two branches have, a run of
\* get_migration_plan on other record lists that give the same source chain
\* and the same target chain, with the same result of the status query,
\* returns the same result.
C12_SameChainsSamePlan ==
    ppc = "returned" =>
        \A cr \in BranchLists(MaxBranchRevisions), tr \in BranchLists(MaxBranchRevisions) :
            (/\ build_revision_chain(cr) = SourceChain
             /\ build_revision_chain(tr) = TargetChain) =>
                get_migration_plan(status_rev, cr, tr, Branches,
                    [b \in {"current", "other", "target"} |->
                        IF b = "current" THEN cr
                        ELSE IF b = "target" THEN tr
                        ELSE OtherRevisions]) = plan

\* ---------------------------------------------------------------- C13
\* The orders in which the positions 1..n can be enumerated.
Orders(n) ==
    {p \in [1..n -> 1..n] : \A i, j \in 1..n : p[i] = p[j] => i = j}

\* The record list revs enumerated in the order p.
Permuted(revs, p) == [i \in 1..Len(revs) |-> revs[p[i]]]

\* C13 (as stated): every permutation of a record list, whatever its shape,
\* yields the chain the list itself yields.
C13_AnyOrderSameChain ==
    bpc = "done" =>
        \A p \in Orders(Len(revisions)) :
            build_revision_chain(Permuted(revisions, p)) = chain

\* C13 (amended): every permutation of a record list whose ids are unique and
\* that has exactly one head yields the chain the list itself yields.
C13_OneHeadAnyOrderSameChain ==
    (/\ bpc = "done"
     /\ UniqueIds(revisions)
     /\ Cardinality(Heads(revisions)) = 1) =>
        \A p \in Orders(Len(revisions)) :
            build_revision_chain(Permuted(revisions, p)) = chain

\* A three-record list with unique ids and one head, whose head is listed
\* last and whose chain holds all three ids, has been chained.
C13_Witness ==
    /\ bpc = "done"
    /\ UniqueIds(revisions)
    /\ Cardinality(Heads(revisions)) = 1
    /\ Len(revisions) = 3
    /\ Len(chain) = 3
    /\ chain[3] = revisions[3].id

\* ---------------------------------------------------------------- C14
\* C14: the revision find_common_revision computes for the two branches is
\* null exactly when their chains share no id, and is otherwise an element of
\* both chains after which the source chain has no element of the target
\* chain; it is the common_revision of every plan of the non-ghost path.
C14_LastSharedRevision ==
    Planned =>
        LET S == SourceChain
            T == TargetChain
            c == find_common_revision(current_revisions, target_revisions)
        IN  /\ c = Null <=> ChainIds(S) \cap ChainIds(T) = {}
            /\ c /= Null =>
                  /\ c \in ChainIds(T)
                  /\ \E i \in 1..Len(S) :
                        /\ S[i] = c
                        /\ \A k \in (i+1)..Len(S) : S[k] \notin ChainIds(T)
            /\ status_rev \in RecordIds(current_revisions) =>
                  /\ plan.kind = "plan"
                  /\ plan.common_revision = c

\* A plan whose common revision is the second of two revisions the chains
\* share.
C14_Witness ==
    /\ Planned
    /\ Len(SourceChain) = 2
    /\ ChainIds(SourceChain) \subseteq ChainIds(TargetChain)
    /\ status_rev \in RecordIds(current_revisions)
    /\ plan.kind = "plan"
    /\ plan.common_revision = SourceChain[2]

\* ---------------------------------------------------------------- C15
\* C15 (as stated): in every plan, needs_upgrade is true exactly when the
\* target chain's head differs from the current database revision; an empty
\* target chain has no head, which differs from every revision.
C15_UpgradeIffHeadDiffers ==
    (Planned /\ plan.kind = "plan") =>
        (plan.needs_upgrade <=> chain_head(TargetChain) /= status_rev)

\* C15 (amended): in every plan, needs_upgrade is true exactly when the
\* target chain is not empty and its head differs from the current database
\* revision.
C15_UpgradeIffHeadExistsAndDiffers ==
    (Planned /\ plan.kind = "plan") =>
        LET T == TargetChain
        IN  plan.needs_upgrade <=> (T /= <<>> /\ T[Len(T)] /= status_rev)

\* A plan for a switch to a branch without scripts: no upgrade.
C15_Witness ==
    /\ Planned
    /\ plan.kind = "plan"
    /\ TargetChain = <<>>
    /\ Len(SourceChain) = 2
    /\ ~plan.needs_upgrade

\* ---------------------------------------------------------------- C16
\* The records of a list, as a set.
RecordSet(revs) == {revs[i] : i \in 1..Len(revs)}

\* C16: when the two branches have the same records and the same chain and
\* the current database revision is the head of that chain, the plan has
\* needs_downgrade = false and needs_upgrade = false.
C16_SameBranchesNothingToDo ==
    (/\ Planned
     /\ RecordSet(current_revisions) = RecordSet(target_revisions)
     /\ SourceChain = TargetChain
     /\ status_rev = chain_head(SourceChain)) =>
        /\ plan.kind = "plan"
        /\ ~plan.needs_downgrade
        /\ ~plan.needs_upgrade

\* A plan for two branches with the same two-revision history, listed in
\* different orders, and the database at its head.
C16_Witness ==
    /\ Planned
    /\ RecordSet(current_revisions) = RecordSet(target_revisions)
    /\ current_revisions /= target_revisions
    /\ SourceChain = TargetChain
    /\ Len(SourceChain) = 2
    /\ status_rev = SourceChain[2]
    /\ plan.kind = "plan"
    /\ plan.common_revision = status_rev
    /\ plan.target_head_revision = status_rev

\* ---------------------------------------------------------------- C17
\* The chains S and T agree on their first k elements and share no id after
\* them.
SharedPrefix(S, T, k) ==
    /\ k <= Len(S)
    /\ k <= Len(T)
    /\ \A i \in 1..k : S[i] = T[i]
    /\ \A i \in (k+1)..Len(S) : S[i] \notin ChainIds(T)
    /\ \A i \in (k+1)..Len(T) : T[i] \notin ChainIds(S)

\* C17: when the source and the target chain share a non-empty prefix, both
\* go on after it without a shared id, and the current database revision is
\* the source head, the plan has the last shared revision as
\* common_revision, needs_downgrade = true, needs_upgrade = true and the
\* target head as target_head_revision.
C17_DivergedDownThenUp ==
    Planned =>
        LET S == SourceChain
            T == TargetChain
        IN  \A k \in 1..MaxBranchRevisions :
                (/\ k < Len(S)
                 /\ k < Len(T)
                 /\ status_rev = S[Len(S)]
                 /\ SharedPrefix(S, T, k)) =>
                    /\ plan.kind = "plan"
                    /\ plan.common_revision = S[k]
                    /\ plan.needs_downgrade
                    /\ plan.needs_upgrade
                    /\ plan.target_head_revision = T[Len(T)]

\* A plan for the source chain [a, b] and the target chain [a, c] with the
\* database at b: down to a, up to c.
C17_Witness ==
    /\ Planned
    /\ SourceChain = <<"a", "b">>
    /\ TargetChain = <<"a", "c">>
    /\ status_rev = "b"
    /\ plan = MigrationPlan("b", "a", "c", TRUE, TRUE)

\* ---------------------------------------------------------------- C18
\* C18: when the source chain is a proper prefix of the target chain and
\* the current database revision is the source head, the plan has the source
\* head as common_revision, needs_downgrade = false, needs_upgrade = true
\* and the target head as target_head_revision.
C18_FastForwardUpOnly ==
    Planned =>
        LET S == SourceChain
            T == TargetChain
        IN  (/\ S /= <<>>
             /\ Len(S) < Len(T)
             /\ S = SubSeq(T, 1, Len(S))
             /\ status_rev = S[Len(S)]) =>
                /\ plan.kind = "plan"
                /\ plan.common_revision = status_rev
                /\ ~plan.needs_downgrade
                /\ plan.needs_upgrade
                /\ plan.target_head_revision = T[Len(T)]

\* A plan for the source chain [a] and the target chain [a, b] with the
\* database at a: up to b, nothing to take down.
C18_Witness ==
    /\ Planned
    /\ SourceChain = <<"a">>
    /\ TargetChain = <<"a", "b">>
    /\ status_rev = "a"
    /\ plan = MigrationPlan("a", "a", "b", FALSE, TRUE)

\* ---------------------------------------------------------------- C19
\* Repository r's status query ended without a revision: the command failed,
\* timed out, could not be run, or printed no revision id.
StatusUnknown(r) ==
    \E i \in 1..Len(queries[r]) :
        /\ queries[r][i].ev = "get_current_db_revision"
        /\ queries[r][i].result \in {"no_id", "failed", "timeout", "no_venv"}

\* C19: when a repository's status query ends without a revision,
\* get_migration_plan returns the error result and no plan, it has read
\* neither branch's revisions and searched no branch, and no downgrade is
\* issued for that repository during the branch switch.
C19_UnknownRevisionNoDowngrade ==
    \A r \in RepoNames :
        StatusUnknown(r) =>
            /\ repo_plan[r] = UnknownRevisionError
            /\ Len(queries[r]) = 1
            /\ ~Logged(r, "downgrade")

\* A switch has ended for a repository whose status query timed out: the
\* operator chose to skip the migration sync and the checkout was made.
C19_Witness ==
    /\ gpc = "done"
    /\ \E r \in RepoNames :
          /\ queries[r] = <<Event("get_current_db_revision", Null, "timeout")>>
          /\ repo_plan[r] = UnknownRevisionError
          /\ Logged(r, "confirm_skip")
          /\ Logged(r, "checkout")

\* ---------------------------------------------------------------- C20
\* Some command execute_migration issued ended the way `outcome`.
Issued(outcome) ==
    \E i \in 1..Len(em_result.events) : em_result.events[i].result = outcome

\* C20: execute_migration returns success, with an empty message, only when
\* every command it issued completed; when a command it issued failed or
\* timed out it returns failure with a non-empty message; the message after
\* a timeout is not the message after a failed command.
C20_FailureReported ==
    epc = "returned" =>
        /\ em_result.success =>
              /\ em_result.error = ""
              /\ \A i \in 1..Len(em_result.events) : em_result.events[i].result = "ok"
        /\ (Issued("failed") \/ Issued("timeout")) =>
              /\ ~em_result.success
              /\ em_result.error /= ""
        /\ Issued("timeout") => em_result.error /= error_message("failed")
        /\ Issued("failed") => em_result.error /= error_message("timeout")

\* A call whose downgrade completed and whose upgrade timed out has
\* returned failure with the timeout message.
C20_Witness ==
    /\ epc = "returned"
    /\ Len(em_result.events) = 2
    /\ em_result.events[1].result = "ok"
    /\ em_result.events[2].result = "timeout"
    /\ ~em_result.success
    /\ em_result.error = error_message("timeout")

\* ---------------------------------------------------------------- C21
\* How many entries of the sequence of events evs are the event ev.
Count(evs, ev) == Cardinality({i \in 1..Len(evs) : evs[i].ev = ev})

\* C21: during the branch switch of a repository the status query, the
\* downgrade command and the upgrade command are each issued at most once,
\* whatever way they end.
C21_NoRetry ==
    \A r \in RepoNames :
        /\ Count(queries[r], "get_current_db_revision") <= 1
        /\ Count(log[r], "downgrade") <= 1
        /\ Count(log[r], "upgrade") <= 1

\* A switch has ended for a repository whose downgrade timed out and whose
\* upgrade failed: each was issued once, after one status query.
C21_Witness ==
    /\ gpc = "done"
    /\ \E r \in RepoNames :
          /\ Count(queries[r], "get_current_db_revision") = 1
          /\ \E i, j \in 1..Len(log[r]) :
                /\ log[r][i].ev = "downgrade" /\ log[r][i].result = "timeout"
                /\ log[r][j].ev = "upgrade" /\ log[r][j].result = "failed"

\* ---------------------------------------------------------------- C22
\* C22: the last element of the returned chain is the id of the first
\* record, in list order, whose id no record names as its down_revision,
\* and the id of the first record of the list when every id is named.
C22_HeadIsFirstUnreferenced ==
    (bpc = "done" /\ revisions /= <<>>) =>
        /\ chain /= <<>>
        /\ Heads(revisions) /= {} =>
              /\ chain[Len(chain)] \in Heads(revisions)
              /\ \E i \in 1..Len(revisions) :
                    /\ revisions[i].id = chain[Len(chain)]
                    /\ \A j \in 1..(i-1) : revisions[j].id \notin Heads(revisions)
        /\ Heads(revisions) = {} => chain[Len(chain)] = revisions[1].id

\* A chain of three ids has been returned for a list in which every id is
\* named as a down_revision: its head is the first record.
C22_Witness ==
    /\ bpc = "done"
    /\ Len(revisions) = 3
    /\ Heads(revisions) = {}
    /\ Len(chain) = 3
    /\ chain[3] = revisions[1].id

\* ---------------------------------------------------------------- C23
\* get_migration_plan has searched the branches for the revision.
Searched == \E i \in 1..Len(called) : called[i] = "find_revision_in_branches"

\* C23: get_migration_plan searches the branches only when the status query
\* gave a revision that no script of the source branch and no script of the
\* target branch carries, and then it returns the missing-revision error:
\* never a plan, no plan, or the unknown-revision error.
C23_SearchOnlyWhenMissing ==
    (ppc = "returned" /\ Searched) =>
        /\ Truthy(status_rev)
        /\ status_rev \notin RecordIds(current_revisions)
        /\ status_rev \notin RecordIds(target_revisions)
        /\ plan.kind = "error"
        /\ plan.error = "missing_revision"

\* A run that searched the branches and found the revision on the third
\* branch, after reading a source branch of two scripts.
C23_Witness ==
    /\ ppc = "returned"
    /\ Searched
    /\ Len(current_revisions) = 2
    /\ target_revisions /= <<>>
    /\ plan.kind = "error"
    /\ plan.error = "missing_revision"
    /\ plan.found_in_branches = <<"other">>

\* ---------------------------------------------------------------- C24
\* get_revisions_in_branch has returned for a listing of one readable
\* migration script.
OneScriptRead ==
    /\ rpc = "returned"
    /\ tree_listed
    /\ Len(tree_entries) = 1
    /\ tree_entries[1].readable
    /\ is_revision_file(tree_entries[1].name)

\* Some line of the script read is one of `lines`.
HasLine(lines) ==
    \E i \in 1..Len(tree_entries[1].lines) : tree_entries[1].lines[i] \in lines

\* C24: a script whose revision line is revision = 'a' and one whose
\* revision line is revision: str = "a", in either quote character, both
\* give one record with the id a; a down_revision line assigning None, plain
\* or annotated, gives that record a null down_revision.
C24_BothSyntaxesSameId ==
    OneScriptRead =>
        \A q \in Quotes :
            HasLine({"revision = " \o q \o "a" \o q, "revision: str = " \o q \o "a" \o q}) =>
                /\ Len(parsed) = 1
                /\ parsed[1].id = "a"
                /\ HasLine({"down_revision = None",
                            "down_revision: Union[str, None] = None"}) =>
                      parsed[1].down_revision = Null

\* A script in the annotated syntax with double quotes and an annotated
\* down_revision of None has been parsed to the record (a, null).
C24_Witness ==
    /\ OneScriptRead
    /\ tree_entries[1].lines =
          <<"revision: str = \"a\"", "down_revision: Union[str, None] = None">>
    /\ parsed = <<[id |-> "a", down_revision |-> Null]>>

\* ---------------------------------------------------------------- C25
\* The entries of the listing that are migration scripts whose content can
\* be read and holds a revision id.
ParseableEntries ==
    SelectSeq(tree_entries,
              LAMBDA e : is_revision_file(e.name) /\ e.readable /\ parse_script(e) /= <<>>)

\* C25: get_revisions_in_branch returns the empty list when the directory
\* is not on the branch, and otherwise one record with a revision id for
\* every readable migration script of the listing that holds one, in the
\* listing's order, whatever the other entries are.
C25_UnparseableSkipped ==
    rpc = "returned" =>
        /\ ~tree_listed => parsed = <<>>
        /\ tree_listed =>
              /\ Len(parsed) = Len(ParseableEntries)
              /\ \A i \in 1..Len(parsed) :
                    /\ <<parsed[i]>> = parse_script(ParseableEntries[i])
                    /\ Truthy(parsed[i].id)

\* A listing whose first script holds no revision id and whose second
\* script holds one has been read: one record, of the second script.
C25_Witness ==
    /\ rpc = "returned"
    /\ tree_listed
    /\ Len(tree_entries) = 2
    /\ is_revision_file(tree_entries[1].name)
    /\ tree_entries[1].readable
    /\ parse_script(tree_entries[1]) = <<>>
    /\ parsed = parse_script(tree_entries[2])
    /\ Len(parsed) = 1

\* ---------------------------------------------------------------- C26
\* C26: for every source record list, the ghost test get_migration_plan
\* makes (the current database revision is the id of no parsed source
\* record) gives the answer of the test on the source chain (the revision is
\* not an element of the chain), and no plan comes from the fallback for a
\* revision that is off the chain.
C26_GhostTestsAgree ==
    Planned =>
        /\ is_ghost(status_rev, current_revisions) <=> status_rev \notin ChainIds(SourceChain)
        /\ (plan.kind = "plan" /\ plan.needs_downgrade) =>
              status_rev \in ChainIds(SourceChain)

\* ---------------------------------------------------------------- C27
\* C27: in every plan with needs_upgrade = true, the revision the database
\* is at when the upgrade starts (common_revision after a downgrade, the
\* current database revision otherwise) is an element of the target chain.
C27_UpgradeStartsOnTargetChain ==
    (Planned /\ plan.kind = "plan" /\ plan.needs_upgrade) =>
        (IF plan.needs_downgrade THEN plan.common_revision ELSE status_rev)
            \in ChainIds(TargetChain)

\* ---------------------------------------------------------------- C28
\* C28: in every plan with needs_downgrade = true, common_revision is not
\* null, is an element of the source chain and of the target chain, and is
\* not the current database revision.
C28_DowngradeHasCommonRevision ==
    (Planned /\ plan.kind = "plan" /\ plan.needs_downgrade) =>
        /\ plan.common_revision /= Null
        /\ plan.common_revision \in ChainIds(SourceChain)
        /\ plan.common_revision \in ChainIds(TargetChain)
        /\ plan.common_revision /= status_rev

\* A plan with a downgrade, from the head of a two-revision source chain to
\* its root, the only revision the target chain shares.
C28_Witness ==
    /\ Planned
    /\ plan.kind = "plan"
    /\ plan.needs_downgrade
    /\ Len(SourceChain) = 2
    /\ status_rev = SourceChain[2]
    /\ plan.common_revision = SourceChain[1]
    /\ TargetChain = <<SourceChain[1]>>

\* ---------------------------------------------------------------- C29
\* C29: when a gco run has ended, every repository whose downgrade
\* completed has after it a git checkout that succeeded and, after that, an
\* upgrade to head; in targeted and in discovery mode.
C29_DowngradeFollowedByUpgrade ==
    gpc = "done" =>
        \A r \in RepoNames :
            \A i \in 1..Len(log[r]) :
                (log[r][i].ev = "downgrade" /\ log[r][i].result = "ok") =>
                    \E j \in (i+1)..Len(log[r]) :
                        /\ log[r][j].ev = "checkout"
                        /\ log[r][j].result = "ok"
                        /\ \E k \in (j+1)..Len(log[r]) : log[r][k].ev = "upgrade"

\* ---------------------------------------------------------------- C30
\* The calls that read and change nothing: the status query `alembic
\* current`, the listing and reading of a branch's scripts, the search of
\* the branches.
ReadOnlyCalls ==
    {"get_current_db_revision", "get_revisions_in_branch", "find_revision_in_branches"}

\* C30: a run of get_migration_plan, whatever it returns, makes read-only
\* calls only, issues no migration command, and leaves the database's
\* revision and the records of both branches as they were.
C30_PlanningReadOnly ==
    [][ppc' = "returned" =>
          /\ \A i \in 1..Len(called') : called'[i] \in ReadOnlyCalls
          /\ log' = log
          /\ db_revision' = db_revision
          /\ current_revisions' = current_revisions
          /\ target_revisions' = target_revisions]_vars

\* A plan with a downgrade and an upgrade has been returned after the status
\* query and the two branch reads, the database still at the revision the
\* query gave.
C30_Witness ==
    /\ ppc = "returned"
    /\ plan.kind = "plan"
    /\ plan.needs_downgrade
    /\ plan.needs_upgrade
    /\ called = <<"get_current_db_revision", "get_revisions_in_branch",
                  "get_revisions_in_branch">>
    /\ db_revision = status_rev

====
